---- MODULE Spec2Model ----
(***************************************************************************)
(* The asynchronous message-dispatch pipeline of the Merkle chat client:   *)
(* the Redux chat slice (src/src/store/index.ts), the submit handler of    *)
(* the input component (src/src/components/MerkleLogo.tsx, handleSend),    *)
(* the mount effect of AppContent (src/unnamed/part_003), the completion   *)
(* client GrokService (src/unnamed/part_004) and the snapshot store        *)
(* MessagePersistence (src/unnamed/part_002).                              *)
(*                                                                         *)
(* JavaScript runs one task at a time.  An action of this module is one    *)
(* task together with the promise continuations it triggers: everything a  *)
(* handler does up to the point where it waits for the network or for a    *)
(* timer.  The waiting points are the fetch of one attempt and the read of *)
(* its response body (or the mock delay), the backoff delay between two    *)
(* attempts and the 500 ms timer that continues the queue.  Time is        *)
(* abstracted: a pending request or timer may complete at any moment.      *)
(***************************************************************************)
EXTENDS Integers, Sequences, FiniteSets, TLC

\* ---------------------------------------------------------------- bounds
MaxSubmits == 3        \* accepted submits in one run
MaxBoot == 2           \* times the mount effect of AppContent runs
MaxRetriesBound == 3   \* largest retry budget of a request (SpecRetry)
MaxSubmitsRetry == 2   \* messages the user submits (SpecRetry)
MaxRetriesQueue == 1   \* largest retry budget while the queue is exercised (Spec)
MaxRetryCount == 4     \* largest retryCount reached by incrementRetryCount (SpecSlice)
MaxHistory == 11       \* longest history a request is built from (SpecContext)
MaxMessages == 101     \* longest message list saved (SpecPersistence)
MaxDays == 8           \* days that pass (SpecPersistence)

\* ------------------------------------------------------------- constants
DefaultMaxRetries == 3     \* REACT_APP_MAX_RETRIES default
BackoffBaseMs == 1000      \* Math.pow(2, attempt) * 1000
HistoryWindow == 10        \* .slice(-10)
MAX_STORED_MESSAGES == 100  \* messagePersistence
MaxAgeDays == 7            \* sevenDaysAgo.setDate(getDate() - 7)
SP == 0                    \* a whitespace character of the typed input
ReplyMark == 100           \* first character of a reply text
NullId == 0                \* sessionId: null
Null == "<null>"           \* error: null
Undefined == "<undefined>" \* sessionId?: undefined

\* ------------------------------------------------------------- variables
VARIABLES
  chat,      \* ChatState, the state of the Redux slice
  reqs,      \* the pending calls of GrokService.sendMessage, oldest first
  timers,    \* pending setTimeout(() => dispatch(processMessageQueue()), 500)
  config,    \* GrokServiceConfig: useMockResponses, maxRetries
  nBoot,     \* times initializeChatSession was dispatched
  localStorage,  \* the item stored under STORAGE_KEY: <<>> or <<item>>
  clock,     \* the time of the browser, in days
  saved,     \* the arguments and the time of the latest saveMessages call:
             \* <<>> before the first call and once the item it wrote was
             \* overwritten from outside
  returned   \* the latest call of MessagePersistence and its return value:
             \* <<>> for void and null, <<data>> for a StoredChatData

persistence == <<localStorage, clock, saved, returned>>

vars == <<chat, reqs, timers, config, nBoot, persistence>>

\* --------------------------------------------------------------- helpers
RECURSIVE Pow2(_)
Pow2(n) == IF n = 0 THEN 1 ELSE 2 * Pow2(n - 1)

RECURSIVE TrimLeft(_)
TrimLeft(m) == IF m # <<>> /\ Head(m) = SP THEN TrimLeft(Tail(m)) ELSE m

RECURSIVE TrimRight(_)
TrimRight(m) ==
  IF m # <<>> /\ m[Len(m)] = SP THEN TrimRight(SubSeq(m, 1, Len(m) - 1)) ELSE m

\* String.prototype.trim
Trim(m) == TrimRight(TrimLeft(m))

\* the text of the reply to a message
Reply(text) == <<ReplyMark>> \o text

\* ------------------------------------------------------------ chat slice
initialState ==
  [ messages |-> <<>>,
    isLoading |-> FALSE,
    error |-> Null,
    currentInput |-> <<>>,
    isTyping |-> FALSE,
    sessionId |-> NullId,
    messageQueue |-> <<>>,
    isProcessingQueue |-> FALSE,
    connectionStatus |-> "connected",
    retryCount |-> 0 ]

\* mutant: the new message is put in front of the history
addUserMessage_front(state, payload) ==
  [state EXCEPT
     !.messages = <<[sender |-> "user", text |-> payload]>> \o @,
     !.currentInput = <<>>,
     !.error = Null]

addUserMessage(state, payload) ==
  [state EXCEPT
     !.messages = Append(@, [sender |-> "user", text |-> payload]),
     !.currentInput = <<>>,
     !.error = Null]

enqueueMessage(state, payload) ==
  [state EXCEPT !.messageQueue = Append(@, payload)]

\* Array.prototype.shift: removes the first element, a no-op on []
Shift(q) == IF q = <<>> THEN <<>> ELSE Tail(q)

\* mutant: the item stays in the queue
dequeueMessage_keep(state) == state

dequeueMessage(state) ==
  [state EXCEPT !.messageQueue = Shift(@)]

sendMessageToGrok_pending(state) ==
  [state EXCEPT !.isLoading = TRUE, !.isTyping = TRUE, !.error = Null]

\* mutant: the loading flag is left on after a reply
sendMessageToGrok_fulfilled_loading(state, payload) ==
  [state EXCEPT
     !.isTyping = FALSE,
     !.error = Null,
     !.messages = Append(@, payload)]

sendMessageToGrok_fulfilled(state, payload) ==
  [state EXCEPT
     !.isLoading = FALSE,
     !.isTyping = FALSE,
     !.error = Null,
     !.messages = Append(@, payload)]

\* mutant: the failure is shown as a message of the assistant
sendMessageToGrok_rejected_bubble(state, payload) ==
  [state EXCEPT
     !.isLoading = FALSE,
     !.isTyping = FALSE,
     !.error = payload,
     !.messages = Append(@, [sender |-> "assistant", text |-> <<ReplyMark>>])]

\* mutant: a failed send counts as a retry
sendMessageToGrok_rejected_counts(state, payload) ==
  [state EXCEPT
     !.isLoading = FALSE,
     !.isTyping = FALSE,
     !.error = payload,
     !.retryCount = @ + 1]

\* mutant: the typing indicator is not cleared on failure
sendMessageToGrok_rejected_typing(state, payload) ==
  [state EXCEPT !.isLoading = FALSE, !.error = payload]

sendMessageToGrok_rejected(state, payload) ==
  [state EXCEPT !.isLoading = FALSE, !.isTyping = FALSE, !.error = payload]

initializeChatSession_pending(state) ==
  [state EXCEPT !.isLoading = TRUE, !.error = Null]

initializeChatSession_fulfilled(state, payload) ==
  [state EXCEPT
     !.isLoading = FALSE,
     !.sessionId = payload.sessionId,
     !.error = Null]

setLoading(state, payload) ==
  [state EXCEPT !.isLoading = payload]

setTyping(state, payload) ==
  [state EXCEPT !.isTyping = payload]

setError(state, payload) ==
  [state EXCEPT !.error = payload, !.isLoading = FALSE, !.isTyping = FALSE]

clearError(state) ==
  [state EXCEPT !.error = Null]

\* mutant: the count survives the return to connected
setConnectionStatus_keep(state, payload) ==
  [state EXCEPT !.connectionStatus = payload]

setConnectionStatus(state, payload) ==
  [state EXCEPT
     !.connectionStatus = payload,
     !.retryCount = IF payload = "connected" THEN 0 ELSE @]

incrementRetryCount(state) ==
  [state EXCEPT !.retryCount = @ + 1]

resetRetryCount(state) ==
  [state EXCEPT !.retryCount = 0]

\* mutant: the start of a drain wipes the error
processMessageQueue_pending_clears(state) ==
  [state EXCEPT !.isProcessingQueue = TRUE, !.error = Null]

processMessageQueue_pending(state) ==
  [state EXCEPT !.isProcessingQueue = TRUE]

processMessageQueue_fulfilled(state) ==
  [state EXCEPT !.isProcessingQueue = FALSE]

\* ------------------------------------------------------------ GrokService
\* the payloads handed to setError
ErrorTexts == {"Failed to send message to Grok API"}

\* what one attempt (one call of the function handed to retryWithBackoff)
\* can end with: a valid response, or one of the errors thrown
Failures ==
  {"http401", "http403", "http4xx", "http429", "http5xx",
   "timeout", "network", "badBody", "noChoices", "noContent"}

\* the message of the Error thrown by one attempt
ErrorMessage(kind) ==
  CASE kind = "http401" -> "Invalid API key. Please check your Grok API configuration."
    [] kind = "http429" -> "Rate limit exceeded. Please wait a moment before sending another message."
    [] kind = "http5xx" -> "Grok service is temporarily unavailable. Please try again later."
    [] kind = "http403" -> "Access denied. Please check your API key permissions."
    [] kind = "http4xx" -> "errorData.error.message"
    [] kind = "timeout" -> "Request timeout - Grok API took too long to respond"
    [] kind = "network" -> "Failed to fetch"
    [] kind = "badBody" -> "Unexpected end of JSON input"
    [] kind = "noChoices" -> "No response choices received from Grok API"
    [] kind = "noContent" -> "Invalid response format from Grok API"

\* a call of sendMessage(message, history) that has just started:
\*   caller   "send" (sendMessageToGrok, awaited by a drain) or
\*            "probe" (healthCheck, awaited by initializeChatSession)
\*   phase    "mock"    waiting for the simulated delay
\*            "fetch"   attempt number `attempt` awaits fetch(), its abort
\*                      timer pending
\*            "body"    fetch() has resolved with the status line and the
\*                      abort timer is cleared; the attempt awaits
\*                      response.json()
\*            "backoff" waiting for the delay after a failed attempt
\*            "fulfilled" / "rejected"  the promise has settled; the caller
\*                      resumes in the same step and the call is forgotten
\*   error    the message of the Error the call was rejected with
\*   delays   the backoff delays waited so far, in ms
\* mutant: the mock switch is ignored and the network is used
sendMessage_live(caller, message) ==
  [ caller |-> caller,
    message |-> message,
    phase |-> "fetch",
    attempt |-> 0,
    delays |-> <<>>,
    error |-> Null ]

sendMessage(caller, message) ==
  [ caller |-> caller,
    message |-> message,
    phase |-> IF config.useMockResponses THEN "mock" ELSE "fetch",
    attempt |-> 0,
    delays |-> <<>>,
    error |-> Null ]

\* mutant: gives up one attempt early
retryWithBackoff_catch_early(r, kind) ==
  IF r.attempt >= config.maxRetries - 1
  THEN [r EXCEPT !.phase = "rejected", !.error = ErrorMessage(kind)]
  ELSE [r EXCEPT !.phase = "backoff",
                 !.delays = Append(@, Pow2(r.attempt) * BackoffBaseMs)]

\* mutant: the exponent counts the attempt to come, 2 s, 4 s, 8 s
retryWithBackoff_catch_doubled(r, kind) ==
  IF r.attempt = config.maxRetries
  THEN [r EXCEPT !.phase = "rejected", !.error = ErrorMessage(kind)]
  ELSE [r EXCEPT !.phase = "backoff",
                 !.delays = Append(@, Pow2(r.attempt + 1) * BackoffBaseMs)]

\* the catch block of retryWithBackoff, for the attempt r is waiting for and
\* the error it threw; lastError is assigned here and read only by the throw
\* of the same pass, so it is not part of the state of a pending call
retryWithBackoff_catch(r, kind) ==
  LET lastError == ErrorMessage(kind) IN
  IF r.attempt = config.maxRetries
  THEN [r EXCEPT !.phase = "rejected", !.error = lastError]
  ELSE [r EXCEPT !.phase = "backoff",
                 !.delays = Append(@, Pow2(r.attempt) * BackoffBaseMs)]

\* the await in which an attempt throws an error of this kind: the abort of
\* the timeout and a network failure reject fetch(); the status, the JSON
\* text and the choices are looked at after the body was read
ThrownWhile(kind) ==
  IF kind \in {"timeout", "network"} THEN "fetch" ELSE "body"

\* fetch() has resolved: clearTimeout(timeoutId), then the body is awaited
sendMessage_response(r) ==
  [r EXCEPT !.phase = "body"]

\* the abort timer of the attempt is pending: from setTimeout at the start
\* of the attempt to the clearTimeout that follows fetch()
TimeoutArmed(r) == r.phase = "fetch"

\* one call of the function handed to retryWithBackoff is under way
AttemptInProgress(r) == r.phase \in {"fetch", "body"}

\* the delay is over: the loop increments attempt and calls fn() again
retryWithBackoff_next(r) ==
  [r EXCEPT !.attempt = @ + 1, !.phase = "fetch"]

\* `return await fn()` with a valid response, or the mock reply
sendMessage_return(r) ==
  [r EXCEPT !.phase = "fulfilled"]

\* Array.prototype.slice(-n): the last n elements, all of a shorter array
SliceLast(seq, n) ==
  IF Len(seq) <= n THEN seq ELSE SubSeq(seq, Len(seq) - n + 1, Len(seq))

\* !msg.isLoading, where isLoading is an optional field of IMessage
NotLoading(msg) == ~("isLoading" \in DOMAIN msg /\ msg.isLoading)

\* the chat history in Grok format, as sendMessageToGrok computes it from
\* state.chat.messages
conversationHistory(messages) ==
  LET kept == SelectSeq(SliceLast(messages, HistoryWindow), NotLoading)
  IN [k \in 1..Len(kept) |->
        [role |-> IF kept[k].sender = "user" THEN "user" ELSE "assistant",
         content |-> kept[k].text]]

\* the messages of the request body built by sendMessage
requestMessages(message, history) ==
  <<[role |-> "system", content |-> <<>>]>>
    \o history
    \o <<[role |-> "user", content |-> message]>>

\* ----------------------------------------------------- MessagePersistence
\* JSON.stringify of an object: a key whose value is undefined is left out
Stringify(data) ==
  IF data.sessionId = Undefined
  THEN [key \in DOMAIN data \ {"sessionId"} |-> data[key]]
  ELSE data

\* the value of a key of a parsed object, undefined when the key is absent
Get(obj, key) == IF key \in DOMAIN obj THEN obj[key] ELSE Undefined

\* mutant: the oldest messages are kept
saveMessages_first(messages, sessionId, now) ==
  LET messagesToStore ==
        IF Len(messages) <= MAX_STORED_MESSAGES THEN messages
        ELSE SubSeq(messages, 1, MAX_STORED_MESSAGES)
      dataToStore == [messages |-> messagesToStore,
                      lastUpdated |-> now,
                      sessionId |-> sessionId]
  IN Stringify(dataToStore)

\* mutant: every message is stored
saveMessages_unbounded(messages, sessionId, now) ==
  LET dataToStore == [messages |-> messages,
                      lastUpdated |-> now,
                      sessionId |-> sessionId]
  IN Stringify(dataToStore)

\* saveMessages(messages, sessionId) at the time `now`: the item it stores
saveMessages(messages, sessionId, now) ==
  LET messagesToStore == SliceLast(messages, MAX_STORED_MESSAGES)
      dataToStore == [messages |-> messagesToStore,
                      lastUpdated |-> now,
                      sessionId |-> sessionId]
  IN Stringify(dataToStore)

\* an item that is not JSON text, written by something other than
\* saveMessages
Garbage == [unparsable |-> TRUE]

\* JSON.parse(stored) returns rather than throws
Parsable(stored) == "unparsable" \notin DOMAIN stored

\* clearMessages(): the store it leaves
clearMessages(storage) == <<>>

\* mutant: a stale or unparsable snapshot is reported as absent but kept
loadMessages_keeps(storage, now) ==
  IF storage = <<>>
  THEN [result |-> <<>>, store |-> storage]
  ELSE IF ~Parsable(storage[1])
  THEN [result |-> <<>>, store |-> storage]
  ELSE LET data == storage[1]
           lastUpdated == Get(data, "lastUpdated")
           sevenDaysAgo == now - MaxAgeDays
       IN IF lastUpdated < sevenDaysAgo
          THEN [result |-> <<>>, store |-> storage]
          ELSE [result |-> <<data>>, store |-> storage]

\* loadMessages() at the time `now` with the store `storage`: what it returns
\* and what it leaves in the store (a stale snapshot is removed, and so is
\* an item JSON.parse throws on, in the catch block)
loadMessages(storage, now) ==
  IF storage = <<>>
  THEN [result |-> <<>>, store |-> storage]
  ELSE IF ~Parsable(storage[1])
  THEN [result |-> <<>>, store |-> clearMessages(storage)]
  ELSE LET data == storage[1]
           lastUpdated == Get(data, "lastUpdated")
           sevenDaysAgo == now - MaxAgeDays
       IN IF lastUpdated < sevenDaysAgo
          THEN [result |-> <<>>, store |-> clearMessages(storage)]
          ELSE [result |-> <<data>>, store |-> storage]

\* ----------------------------------------------------------------- thunks
\* A thunk is an operator on the record w = [chat, reqs, timers]: the store,
\* the service calls and the pending continuation timers.

\* dispatch(sendMessageToGrok(message)) up to `await grokService.sendMessage`
sendMessageToGrok(w, message) ==
  [w EXCEPT !.chat = sendMessageToGrok_pending(@),
            !.reqs = Append(@, sendMessage("send", message))]

\* dispatch(processMessageQueue()) up to `await dispatch(sendMessageToGrok)`;
\* on an empty queue the thunk returns at once and is fulfilled
\* mutant: a drain that finds the queue empty never ends
processMessageQueue_stuck(w) ==
  LET w1 == [w EXCEPT !.chat = processMessageQueue_pending(@)] IN
  IF Len(w1.chat.messageQueue) = 0
  THEN w1
  ELSE LET nextMessage == w1.chat.messageQueue[1]
           w2 == [w1 EXCEPT !.chat = dequeueMessage(@)]
       IN sendMessageToGrok(w2, nextMessage)

processMessageQueue(w) ==
  LET w1 == [w EXCEPT !.chat = processMessageQueue_pending(@)] IN
  IF Len(w1.chat.messageQueue) = 0
  THEN [w1 EXCEPT !.chat = processMessageQueue_fulfilled(@)]
  ELSE LET nextMessage == w1.chat.messageQueue[1]
           w2 == [w1 EXCEPT !.chat = dequeueMessage(@)]
       IN sendMessageToGrok(w2, nextMessage)

\* mutant: the drain ends without scheduling the next item
processMessageQueue_resume_stop(w) ==
  [w EXCEPT !.chat = processMessageQueue_fulfilled(@)]

\* the rest of processMessageQueue after its await: dispatch(sendMessageToGrok)
\* resolves with the final action whether fulfilled or rejected, so the catch
\* block is never entered and the thunk ends fulfilled
processMessageQueue_resume(w) ==
  LET updatedState == w.chat
      w1 == IF Len(updatedState.messageQueue) > 0
            THEN [w EXCEPT !.timers = @ + 1]
            ELSE w
  IN [w1 EXCEPT !.chat = processMessageQueue_fulfilled(@)]

\* sendMessageToGrok after grokService.sendMessage has settled as r
sendMessageToGrok_settle(w, r) ==
  IF r.phase = "fulfilled"
  THEN LET response == [sender |-> "assistant", text |-> Reply(r.message)]
       IN [w EXCEPT !.chat = sendMessageToGrok_fulfilled(@, response)]
  ELSE [w EXCEPT !.chat = sendMessageToGrok_rejected(@, r.error)]

\* mutant: a failed probe rejects the thunk, which then assigns no session
initializeChatSession_settle_rejects(w, isHealthy) ==
  IF isHealthy
  THEN [w EXCEPT !.chat = initializeChatSession_fulfilled(@,
                   [sessionId |-> w.chat.sessionId + 1, isHealthy |-> TRUE])]
  ELSE [w EXCEPT !.chat.isLoading = FALSE,
                 !.chat.error = "Failed to initialize chat session"]

\* initializeChatSession after healthCheck has returned: healthCheck catches
\* every error, so the thunk is fulfilled whatever the probe's outcome
initializeChatSession_settle(w, isHealthy) ==
  LET payload == [sessionId |-> w.chat.sessionId + 1, isHealthy |-> isHealthy]
  IN [w EXCEPT !.chat = initializeChatSession_fulfilled(@, payload)]

\* dispatch(initializeChatSession()) up to the await of healthCheck; with
\* mock responses healthCheck returns true without waiting
initializeChatSession(w) ==
  LET w1 == [w EXCEPT !.chat = initializeChatSession_pending(@)] IN
  IF config.useMockResponses
  THEN initializeChatSession_settle(w1, TRUE)
  ELSE [w1 EXCEPT !.reqs = Append(@, sendMessage("probe", <<>>))]

\* what the caller of request number i does once it has settled as r
Settle(w, i, r) ==
  LET w1 == [w EXCEPT !.reqs = SubSeq(@, 1, i - 1) \o SubSeq(@, i + 1, Len(@))]
  IN
  IF r.caller = "send"
  THEN processMessageQueue_resume(sendMessageToGrok_settle(w1, r))
  ELSE initializeChatSession_settle(w1, r.phase = "fulfilled")

\* ------------------------------------------------------------ UI handlers
\* mutant: the drain is started only when one is already running
handleSend_inverted(w, message) ==
  IF Trim(message) # <<>> /\ ~w.chat.isLoading
     /\ w.chat.connectionStatus # "disconnected"
  THEN LET messageText == Trim(message)
           w1 == [w EXCEPT !.chat = enqueueMessage(
                               addUserMessage(@, messageText), messageText)]
       IN IF w.chat.isProcessingQueue THEN processMessageQueue(w1) ELSE w1
  ELSE w

\* mutant: the text is neither trimmed nor tested after trimming
handleSend_untrimmed(w, message) ==
  IF message # <<>> /\ ~w.chat.isLoading
     /\ w.chat.connectionStatus # "disconnected"
  THEN LET messageText == message
           w1 == [w EXCEPT !.chat = enqueueMessage(
                               addUserMessage(@, messageText), messageText)]
       IN IF ~w.chat.isProcessingQueue THEN processMessageQueue(w1) ELSE w1
  ELSE w

\* handleSend of ThreeSectionInput, with the typed text `message`
handleSend(w, message) ==
  IF Trim(message) # <<>> /\ ~w.chat.isLoading
     /\ w.chat.connectionStatus # "disconnected"
  THEN LET messageText == Trim(message)
           w1 == [w EXCEPT !.chat = enqueueMessage(
                               addUserMessage(@, messageText), messageText)]
       IN IF ~w.chat.isProcessingQueue THEN processMessageQueue(w1) ELSE w1
  ELSE w

\* ---------------------------------------------------------------- actions
World == [chat |-> chat, reqs |-> reqs, timers |-> timers]

Becomes(w) == chat' = w.chat /\ reqs' = w.reqs /\ timers' = w.timers

NumSubmitted == Cardinality({i \in DOMAIN chat.messages :
                               chat.messages[i].sender = "user"})

\* the texts a user may type as submit number n
Typed(n) == {<<>>, <<SP>>, <<n>>, <<SP, n, SP>>}

\* the store as created, no component mounted yet, for each configuration
NothingStored ==
  /\ localStorage = <<>>
  /\ clock = 0
  /\ saved = <<>>
  /\ returned = [call |-> "none", value |-> <<>>]

InitWith(budgets, modes) ==
  /\ NothingStored
  /\ chat = initialState
  /\ reqs = <<>>
  /\ timers = 0
  /\ nBoot = 0
  /\ config \in [useMockResponses : modes, maxRetries : budgets]

Init == InitWith(0..MaxRetriesQueue, BOOLEAN)

\* the mount effect of AppContent runs (at most maxBoot times)
Mount(maxBoot) ==
  /\ nBoot < maxBoot
  /\ nBoot' = nBoot + 1
  /\ Becomes(initializeChatSession(World))
  /\ UNCHANGED <<config, persistence>>

\* the user presses Enter or the send button of the mounted input (at most
\* maxSubmits messages are accepted)
Send(maxSubmits) ==
  /\ nBoot > 0
  /\ NumSubmitted < maxSubmits
  /\ \E message \in Typed(NumSubmitted + 1) :
       Becomes(handleSend(World, message))
  /\ UNCHANGED <<config, nBoot, persistence>>

\* the simulated delay of a mock reply is over
MockReplies ==
  \E i \in DOMAIN reqs :
    /\ reqs[i].phase = "mock"
    /\ Becomes(Settle(World, i, sendMessage_return(reqs[i])))
    /\ UNCHANGED <<config, nBoot, persistence>>

\* the status line and headers of a response arrive before the timeout
ResponseArrives ==
  \E i \in DOMAIN reqs :
    /\ reqs[i].phase = "fetch"
    /\ Becomes([World EXCEPT !.reqs[i] = sendMessage_response(@)])
    /\ UNCHANGED <<config, nBoot, persistence>>

\* the body read by call i is that of a valid response
AttemptSucceedsAt(i) ==
  /\ reqs[i].phase = "body"
  /\ Becomes(Settle(World, i, sendMessage_return(reqs[i])))
  /\ UNCHANGED <<config, nBoot, persistence>>

AttemptSucceeds ==
  \E i \in DOMAIN reqs : AttemptSucceedsAt(i)

\* the attempt of call i throws: an error status, the abort of the timeout, a
\* network failure, a malformed response
AttemptFailsWith(i, kind) ==
  /\ reqs[i].phase = ThrownWhile(kind)
  /\ LET r == retryWithBackoff_catch(reqs[i], kind) IN
     IF r.phase = "rejected"
     THEN Becomes(Settle(World, i, r))
     ELSE Becomes([World EXCEPT !.reqs[i] = r])
  /\ UNCHANGED <<config, nBoot, persistence>>

AttemptFails ==
  \E i \in DOMAIN reqs, kind \in Failures : AttemptFailsWith(i, kind)

\* the backoff delay of a request is over
BackoffElapsed ==
  \E i \in DOMAIN reqs :
    /\ reqs[i].phase = "backoff"
    /\ Becomes([World EXCEPT !.reqs[i] = retryWithBackoff_next(@)])
    /\ UNCHANGED <<config, nBoot, persistence>>

\* a 500 ms continuation timer fires
TimerFires ==
  /\ timers > 0
  /\ Becomes(processMessageQueue([World EXCEPT !.timers = @ - 1]))
  /\ UNCHANGED <<config, nBoot, persistence>>

Bootstrap == Mount(MaxBoot)

HandleSend == Send(MaxSubmits)

Next ==
  \/ Bootstrap
  \/ HandleSend
  \/ MockReplies
  \/ ResponseArrives
  \/ AttemptSucceeds
  \/ AttemptFails
  \/ BackoffElapsed
  \/ TimerFires

Spec == Init /\ [][Next]_vars

\* Requests complete and timers fire: every fetch ends with a response, an
\* error or the abort of its timeout, a response that has begun delivers its
\* body or fails, and every delay elapses.  The user and the mounting of
\* components are under no obligation.
Fairness ==
  /\ WF_vars(MockReplies)
  /\ WF_vars(ResponseArrives \/ AttemptSucceeds \/ AttemptFails)
  /\ WF_vars(BackoffElapsed)
  /\ WF_vars(TimerFires)

LiveSpec == Spec /\ Fairness

\* The live API under every retry budget up to MaxRetriesBound, with fewer
\* submits than Spec.
InitRetry == InitWith(0..MaxRetriesBound, {FALSE})

HandleSendRetry == Send(MaxSubmitsRetry)

NextRetry ==
  \/ Bootstrap
  \/ HandleSendRetry
  \/ ResponseArrives
  \/ AttemptSucceeds
  \/ AttemptFails
  \/ BackoffElapsed
  \/ TimerFires

SpecRetry == InitRetry /\ [][NextRetry]_vars

\* The plain reducers of the slice under any client of the store: no
\* component of the application dispatches them, so they are applied here
\* in every order to the store as created.
ConnectionStatuses == {"connected", "disconnected", "reconnecting"}

InitSlice == InitWith({DefaultMaxRetries}, {TRUE})

SetConnectionStatusTo(payload) ==
  /\ chat' = setConnectionStatus(chat, payload)
  /\ UNCHANGED <<reqs, timers, config, nBoot, persistence>>

SetConnectionStatus ==
  \E payload \in ConnectionStatuses : SetConnectionStatusTo(payload)

IncrementRetryCount ==
  /\ chat.retryCount < MaxRetryCount
  /\ chat' = incrementRetryCount(chat)
  /\ UNCHANGED <<reqs, timers, config, nBoot, persistence>>

ResetRetryCount ==
  /\ chat' = resetRetryCount(chat)
  /\ UNCHANGED <<reqs, timers, config, nBoot, persistence>>

SetLoading ==
  /\ \E payload \in BOOLEAN : chat' = setLoading(chat, payload)
  /\ UNCHANGED <<reqs, timers, config, nBoot, persistence>>

SetTyping ==
  /\ \E payload \in BOOLEAN : chat' = setTyping(chat, payload)
  /\ UNCHANGED <<reqs, timers, config, nBoot, persistence>>

SetError ==
  /\ \E payload \in {Null} \cup ErrorTexts : chat' = setError(chat, payload)
  /\ UNCHANGED <<reqs, timers, config, nBoot, persistence>>

ClearError ==
  /\ chat' = clearError(chat)
  /\ UNCHANGED <<reqs, timers, config, nBoot, persistence>>

NextSlice ==
  \/ SetConnectionStatus
  \/ IncrementRetryCount
  \/ ResetRetryCount
  \/ SetLoading
  \/ SetTyping
  \/ SetError
  \/ ClearError

SpecSlice == InitSlice /\ [][NextSlice]_vars

\* The request built from a history: the store holds any history of up to
\* MaxHistory messages, some of them marked isLoading, and one message is
\* dispatched to the live API; the pending call is shown with the messages
\* of its request body.
\* ---- the send handler under every connection status: the offline pipeline
\* ---- with setConnectionStatus dispatched at any moment
InitSubmit == InitWith({DefaultMaxRetries}, {TRUE})

NextSubmit ==
  \/ Bootstrap
  \/ HandleSend
  \/ MockReplies
  \/ TimerFires
  \/ SetConnectionStatus

SpecSubmit == InitSubmit /\ [][NextSubmit]_vars

Histories ==
  UNION {[1..n -> BOOLEAN] : n \in 0..MaxHistory}

HistoryOf(flags) ==
  [k \in 1..Len(flags) |->
     [sender |-> IF k % 2 = 1 THEN "user" ELSE "assistant",
      text |-> <<k>>,
      isLoading |-> flags[k]]]

InitContext ==
  /\ NothingStored
  /\ \E flags \in Histories :
       chat = [initialState EXCEPT !.messages = HistoryOf(flags)]
  /\ reqs = <<>>
  /\ timers = 0
  /\ nBoot = 0
  /\ config = [useMockResponses |-> FALSE, maxRetries |-> DefaultMaxRetries]

DispatchWithHistory ==
  /\ reqs = <<>>
  /\ LET message == <<Len(chat.messages) + 1>>
         w == sendMessageToGrok(World, message)
         body == requestMessages(message, conversationHistory(chat.messages))
     IN /\ chat' = w.chat
        /\ reqs' = <<[messages |-> body] @@ w.reqs[1]>>
  /\ UNCHANGED <<timers, config, nBoot, persistence>>

SpecContext == InitContext /\ [][DispatchWithHistory]_vars

\* The persistence store under any caller: message lists of every length up
\* to MaxMessages are saved, with or without a session id, days pass, and
\* the snapshot is loaded.
MessagesOf(n) == [k \in 1..n |-> k]

SessionIds == {Undefined, "session_1"}

InitPersistence == InitWith({DefaultMaxRetries}, {TRUE})

\* the lengths of the lists that are saved: none, one, and those around the
\* limit of the store
MessageCounts ==
  {0, 1} \cup ((MAX_STORED_MESSAGES - 1)..MaxMessages)

SaveMessages ==
  /\ \E n \in MessageCounts, sessionId \in SessionIds :
       /\ localStorage' = <<saveMessages(MessagesOf(n), sessionId, clock)>>
       /\ saved' = <<[messages |-> MessagesOf(n), sessionId |-> sessionId,
                      at |-> clock]>>
  /\ returned' = [call |-> "saveMessages", value |-> <<>>]
  /\ UNCHANGED <<chat, reqs, timers, config, nBoot, clock>>

LoadMessages ==
  /\ LET call == loadMessages(localStorage, clock)
     IN /\ returned' = [call |-> "loadMessages", value |-> call.result]
        /\ localStorage' = call.store
  /\ UNCHANGED <<chat, reqs, timers, config, nBoot, clock, saved>>

DayPasses ==
  /\ clock < MaxDays
  /\ clock' = clock + 1
  /\ UNCHANGED <<chat, reqs, timers, config, nBoot, localStorage, saved, returned>>

\* the item is overwritten with something that is not a snapshot, from
\* outside MessagePersistence
Tampered ==
  /\ localStorage' = <<Garbage>>
  /\ saved' = <<>>
  /\ UNCHANGED <<chat, reqs, timers, config, nBoot, clock, returned>>

NextPersistence ==
  \/ SaveMessages
  \/ LoadMessages
  \/ DayPasses
  \/ Tampered

SpecPersistence == InitPersistence /\ [][NextPersistence]_vars

\* ----------------------------------------------------- derived notions
\* the drains that are waiting for their send: one per pending "send" call
ActiveDrains == {i \in DOMAIN reqs : reqs[i].caller = "send"}

IsUser(m) == m.sender = "user"

IsAssistant(m) == m.sender = "assistant"

\* the texts submitted so far, in submission order
UserTexts ==
  LET users == SelectSeq(chat.messages, IsUser)
  IN [k \in 1..Len(users) |-> users[k].text]

\* the texts whose replies were appended so far, in the order of the replies
AnsweredTexts ==
  LET replies == SelectSeq(chat.messages, IsAssistant)
  IN [k \in 1..Len(replies) |-> Tail(replies[k].text)]

Range(f) == {f[k] : k \in DOMAIN f}

\* the position of a submitted text in the order of submission
SubmitIndex(text) == CHOOSE k \in DOMAIN UserTexts : UserTexts[k] = text

ErrorMessages == {ErrorMessage(kind) : kind \in Failures}

\* this step ends the pending send of `message`
SendEnds(message) ==
  /\ \E i \in ActiveDrains : reqs[i].message = message
  /\ ~ \E j \in DOMAIN reqs' : reqs'[j].caller = "send" /\ reqs'[j].message = message

\* this step ends a pending send by failure: no reply is appended
SendFails(message) ==
  /\ SendEnds(message)
  /\ chat'.messages = chat.messages

\* ------------------------------------------------------------------ C1
\* C1: at any time at most one drain is active and at most one completion
\* request of the session is in flight.
C1_AtMostOneDrain == Cardinality(ActiveDrains) <= 1

\* ------------------------------------------------------------------ C2
\* C2: isProcessingQueue is true exactly while a drain owns the queue:
\* while a send of the drain is pending and during the spacing delay before
\* its next item, and false in every other state.
C2_FlagIffDrainOwnsQueue ==
  chat.isProcessingQueue <=> (ActiveDrains # {} \/ timers > 0)

\* ------------------------------------------------------------------ C4
\* C4: replies are appended in the order of the submissions that caused
\* them: the reply to an earlier submission never follows the reply to a
\* later one.
C4_RepliesInSubmissionOrder ==
  \A j, k \in DOMAIN AnsweredTexts :
    j < k => SubmitIndex(AnsweredTexts[j]) < SubmitIndex(AnsweredTexts[k])

\* ------------------------------------------------------------------ C3
NumAssistant == Len(AnsweredTexts)

\* every submitted text has exactly one reply and replies are all there is
AllAnsweredOnce ==
  /\ Len(AnsweredTexts) = Len(UserTexts)
  /\ Range(AnsweredTexts) = Range(UserTexts)
  /\ Len(chat.messages) = 2 * NumSubmitted

\* no reply without its submission, and no submission answered twice
NoReplyTwice ==
  /\ Range(AnsweredTexts) \subseteq Range(UserTexts)
  /\ \A j, k \in DOMAIN AnsweredTexts :
       AnsweredTexts[j] = AnsweredTexts[k] => j = k

\* C3: with mock responses, however the submits are timed, eventually every
\* submitted message has exactly one reply (N user and N assistant messages),
\* and at no time has a message been answered twice.
C3_EveryoneAnsweredOnce ==
  config.useMockResponses => ([]NoReplyTwice /\ <>[]AllAnsweredOnce)

\* three submits, the second one made before the first reply, all answered
C3_Witness ==
  /\ config.useMockResponses
  /\ NumSubmitted = MaxSubmits
  /\ AllAnsweredOnce
  /\ IsUser(chat.messages[1]) /\ IsUser(chat.messages[2])

\* ------------------------------------------------------------------ C5
PendingTexts == {reqs[i].message : i \in ActiveDrains}

\* C5: the queue never holds an item whose request is pending, an item
\* leaves the queue once and for good (a failed send does not put it back),
\* and the queue is exactly the submitted items not yet taken by a drain, in
\* submission order.
C5_QueueHoldsTheUndispatched ==
  LET q == chat.messageQueue
      u == UserTexts
  IN /\ Len(q) <= Len(u)
     /\ q = SubSeq(u, Len(u) - Len(q) + 1, Len(u))
     /\ PendingTexts \cap Range(q) = {}
     /\ Range(AnsweredTexts) \cap Range(q) = {}
     /\ Cardinality(PendingTexts) = Cardinality(ActiveDrains)
     /\ PendingTexts \cap Range(AnsweredTexts) = {}

\* three back-to-back submits: the first is pending, the other two queued
C5_Witness ==
  /\ NumSubmitted = 3
  /\ Len(chat.messageQueue) = 2
  /\ PendingTexts = {UserTexts[1]}
  /\ chat.messageQueue = <<UserTexts[2], UserTexts[3]>>

\* ------------------------------------------------------------------ C6
QueueIsServed ==
  chat.messageQueue # <<>> => (ActiveDrains # {} \/ timers > 0)

AllSettled ==
  /\ chat.messageQueue = <<>>
  /\ ActiveDrains = {}

\* C6: a non-empty queue always has a drain waiting for its send or a
\* continuation timer pending, and, requests completing and timers firing,
\* eventually every enqueued item has left the queue and its send has ended
\* with a reply or a recorded failure.
C6_EveryItemSettles == []QueueIsServed /\ <>[]AllSettled

\* after a send, items are waiting and only the timer will continue
C6_Witness ==
  /\ chat.messageQueue # <<>>
  /\ ActiveDrains = {}
  /\ timers > 0

\* ------------------------------------------------------------------ C7
\* C7: when a send fails for good, the error is recorded, isLoading and
\* isTyping are cleared, queue and messages are left as they are, the drain
\* ends normally, and with a non-empty queue it schedules the next item.
C7_FailureIsRecordedAndDrainGoesOn ==
  [][\A message \in PendingTexts :
       SendFails(message) =>
         /\ chat'.error \in ErrorMessages
         /\ ~chat'.isLoading
         /\ ~chat'.isTyping
         /\ chat'.messageQueue = chat.messageQueue
         /\ chat'.messages = chat.messages
         /\ ~chat'.isProcessingQueue
         /\ timers' = IF chat.messageQueue # <<>> THEN timers + 1 ELSE timers
    ]_vars

\* a send has just failed while another item is queued
C7_Witness ==
  /\ chat.error \in ErrorMessages
  /\ chat.messageQueue # <<>>
  /\ timers > 0
  /\ ActiveDrains = {}
  /\ NumAssistant = 0

\* ------------------------------------------------------------------ C8
\* the failures the specification calls non-retryable: AuthError (401, 403)
\* and RequestError (any other 4xx)
NonRetryable == {"http401", "http403", "http4xx"}

\* C8: a non-retryable failure ends the request at once, whatever the retry
\* budget: the step in which an attempt fails with 401, 403 or another 4xx
\* ends the call, it does not start a backoff delay or leave the call pending
\* for a further attempt.
C8_NonRetryableEndsRequest ==
  [][\A i \in DOMAIN reqs, kind \in NonRetryable :
       AttemptFailsWith(i, kind) => Len(reqs') < Len(reqs)
    ]_vars

\* ------------------------------------------------------------------ C9
\* C9: a request whose attempts all fail is attempted maxRetries + 1 times
\* and then ends by surfacing an error: before the last attempt a failure
\* leads to a retry (the call stays pending, in its backoff delay, and the
\* store is untouched), never to the end of the request; the failure of
\* attempt number maxRetries ends the request and records the error of that
\* attempt, no reply added; there is no attempt beyond it.
C9_BudgetThenError ==
  [][\A i \in DOMAIN reqs :
       /\ reqs[i].attempt <= config.maxRetries
       /\ \A kind \in Failures :
            (AttemptFailsWith(i, kind) /\ reqs[i].caller = "send") =>
              IF reqs[i].attempt < config.maxRetries
              THEN /\ Len(reqs') = Len(reqs)
                   /\ reqs'[i].phase = "backoff"
                   /\ reqs'[i].attempt = reqs[i].attempt
                   /\ chat' = chat
              ELSE /\ Len(reqs') = Len(reqs) - 1
                   /\ chat'.error = ErrorMessage(kind)
                   /\ chat'.messages = chat.messages
    ]_vars

\* the default budget is used up: the fourth attempt has failed for good
C9_Witness ==
  /\ config.maxRetries = DefaultMaxRetries
  /\ chat.error \in ErrorMessages
  /\ reqs = <<>>
  /\ NumSubmitted = 1

\* ----------------------------------------------------------------- C10
\* the delay the specification gives for the wait before attempt k >= 1
ExpectedDelay(k) == (2 ^ (k - 1)) * 1000

\* C10: the delay waited before attempt k is 2^(k-1) * 1000 ms exactly, one
\* delay per retry, and no delay follows the last attempt of the budget.
C10_ExponentialBackoff ==
  \A i \in DOMAIN reqs :
    LET r == reqs[i]
        waited == IF r.phase = "backoff" THEN r.attempt + 1 ELSE r.attempt
    IN /\ Len(r.delays) = waited
       /\ \A k \in 1..Len(r.delays) : r.delays[k] = ExpectedDelay(k)
       /\ r.phase = "backoff" => r.attempt < config.maxRetries

\* the fourth attempt of the default budget is on its way after 1 s, 2 s, 4 s
C10_Witness ==
  \E i \in DOMAIN reqs :
    /\ config.maxRetries = DefaultMaxRetries
    /\ reqs[i].attempt = 3
    /\ reqs[i].phase = "fetch"
    /\ reqs[i].delays = <<1000, 2000, 4000>>

\* ----------------------------------------------------------------- C11
\* the abort of the timeout is handled as a retryable failure of the attempt
\* and leaves the drain alive: below the budget the call goes to its backoff
\* delay; on the last attempt the send ends with the error recorded, the
\* queue untouched, and the drain schedules the next item
TimeoutIsRetriedAndDrainGoesOn(i) ==
  (AttemptFailsWith(i, "timeout") /\ reqs[i].caller = "send") =>
    IF reqs[i].attempt < config.maxRetries
    THEN /\ chat' = chat
         /\ reqs' = [reqs EXCEPT ![i].phase = "backoff",
                                 ![i].delays = reqs'[i].delays]
    ELSE /\ chat'.error = ErrorMessage("timeout")
         /\ chat'.messageQueue = chat.messageQueue
         /\ timers' = IF chat.messageQueue # <<>> THEN timers + 1 ELSE timers

\* C11: an attempt that exceeds the per-attempt timeout is aborted and the
\* abort counts as one retryable failure, which never cancels the drain: for
\* as long as an attempt is under way its abort timer is pending, so that no
\* attempt outlasts the timeout, and the abort is followed by backoff and a
\* retry while budget remains, else by the recorded failure and the next
\* queued item.
C11_TimeoutBoundsEveryAttempt ==
  [][\A i \in ActiveDrains :
       /\ AttemptInProgress(reqs[i]) => TimeoutArmed(reqs[i])
       /\ TimeoutIsRetriedAndDrainGoesOn(i)
    ]_vars

\* ----------------------------------------------------------------- C12
\* what formatResponse rejects: no choices, or a first choice without content
Malformed == {"noChoices", "noContent"}

\* C12: a success response without choices, or whose first choice has no
\* content, is a failure of the attempt, and this failure is not retried: the
\* step in which formatResponse throws ends the send, whatever the budget,
\* with the error recorded and no reply appended.
C12_MalformedEndsRequest ==
  [][\A i \in ActiveDrains, kind \in Malformed :
       AttemptFailsWith(i, kind) =>
         /\ Len(reqs') = Len(reqs) - 1
         /\ chat'.error = ErrorMessage(kind)
         /\ chat'.messages = chat.messages
    ]_vars

\* ----------------------------------------------------------------- C13
\* C13: setConnectionStatus(s) sets connectionStatus to s, sets retryCount
\* to 0 when s is connected and leaves it as it was when s is disconnected or
\* reconnecting, and changes nothing else; every step that takes the status
\* to connected ends with retryCount = 0, whatever the count was.
C13_ConnectedResetsRetryCount ==
  [][/\ \A s \in ConnectionStatuses :
          SetConnectionStatusTo(s) =>
            /\ chat'.connectionStatus = s
            /\ chat'.retryCount = IF s = "connected" THEN 0 ELSE chat.retryCount
            /\ chat' = [chat EXCEPT !.connectionStatus = chat'.connectionStatus,
                                    !.retryCount = chat'.retryCount]
     /\ (chat.connectionStatus # "connected"
           /\ chat'.connectionStatus = "connected") => chat'.retryCount = 0
    ]_vars

\* the count has survived a change of status away from connected
C13_Witness ==
  /\ chat.connectionStatus = "reconnecting"
  /\ chat.retryCount = MaxRetryCount

\* ----------------------------------------------------------------- C14
\* this step ends the health probe i with `false`: its last attempt fails
ProbeFailsAt(i) ==
  /\ reqs[i].caller = "probe"
  /\ reqs[i].attempt = config.maxRetries
  /\ \E kind \in Failures : AttemptFailsWith(i, kind)

\* this step ends the health probe i with `true`
ProbeSucceedsAt(i) ==
  /\ reqs[i].caller = "probe"
  /\ AttemptSucceedsAt(i)

\* C14: bootstrap sets connectionStatus from the health probe: the step that
\* completes initializeChatSession after a failed probe leaves
\* connectionStatus disconnected, after a successful probe connected.
C14_StatusFollowsProbe ==
  [][\A i \in DOMAIN reqs :
       /\ ProbeFailsAt(i) => chat'.connectionStatus = "disconnected"
       /\ ProbeSucceedsAt(i) => chat'.connectionStatus = "connected"
    ]_vars

\* ----------------------------------------------------------------- C15
\* this step completes an initializeChatSession: a session id is assigned
BootstrapEnds == chat'.sessionId # chat.sessionId

\* the store, the calls and the timers as they are after the step
WorldAfter == [chat |-> chat', reqs |-> reqs', timers |-> timers']

\* handleSend with the text `message`, in the situation w, accepts the
\* submit: the trimmed text is appended as a user message and either joins
\* the queue of the running drain or is sent at once to the live API
SubmitAccepted(w, message) ==
  LET after == handleSend(w, message)
      text == Trim(message)
      queued == Append(w.chat.messageQueue, text)
  IN /\ after.chat.messages =
          Append(w.chat.messages, [sender |-> "user", text |-> text])
     /\ IF w.chat.isProcessingQueue
        THEN after.chat.messageQueue = queued /\ after.reqs = w.reqs
        ELSE /\ after.chat.messageQueue = Tail(queued)
             /\ after.reqs = Append(w.reqs,
                   [caller |-> "send", message |-> Head(queued),
                    phase |-> "fetch", attempt |-> 0, delays |-> <<>>,
                    error |-> Null])

BootstrapsAllEnded ==
  /\ chat.sessionId = nBoot
  /\ \A i \in DOMAIN reqs : reqs[i].caller # "probe"

C16_UserMessagesFirstAndInOrder ==
  /\ Range(chat.messageQueue) \cup PendingTexts \subseteq Range(UserTexts)
  /\ \A k \in DOMAIN UserTexts : UserTexts[k] = <<k>>

\* a reply stands between the user messages while one item is pending and
\* another is queued
C16_Witness ==
  /\ NumSubmitted = 3
  /\ Len(chat.messages) >= 4
  /\ IsAssistant(chat.messages[2])
  /\ Len(chat.messageQueue) = 1
  /\ ActiveDrains # {}

\* ----------------------------------------------------------------- C17
\* this step appends a reply: a dispatch completes successfully
ReplyAppended ==
  /\ Len(chat'.messages) = Len(chat.messages) + 1
  /\ IsAssistant(chat'.messages[Len(chat'.messages)])

\* this step changes the error a failed dispatch has recorded
RecordedErrorChanges ==
  /\ chat.error \in ErrorMessages
  /\ chat'.error # chat.error

\* C17 as claimed: once a failed dispatch has set state.error, the value
\* stays in every following state until a later dispatch completes
\* successfully (no explicit clear is dispatched by these operations).
C17_ErrorStaysUntilSuccess ==
  [][RecordedErrorChanges => ReplyAppended]_vars

\* C17 as amended: once a failed dispatch has set state.error, the value
\* stays until the next submit (addUserMessage), the start of the next
\* dispatch (sendMessageToGrok.pending), a bootstrap (initializeChatSession
\* pending or fulfilled) or the end of a later dispatch; every other step
\* leaves it as it is.
C17_ErrorStaysUntilNextActivity ==
  [][RecordedErrorChanges =>
       \/ NumSubmitted' = NumSubmitted + 1
       \/ Len(reqs') = Len(reqs) + 1
       \/ nBoot' = nBoot + 1
       \/ BootstrapEnds
       \/ \E message \in PendingTexts : SendEnds(message)
    ]_vars

\* a send has failed and everything has come to rest: the error is shown
C17_Witness ==
  /\ chat.error \in ErrorMessages
  /\ NumSubmitted = 2
  /\ reqs = <<>>
  /\ timers = 0
  /\ chat.messageQueue = <<>>

\* ----------------------------------------------------------------- C18
\* the history without its provisional messages
NonProvisional(messages) == SelectSeq(messages, NotLoading)

\* C18: the message list of a request is one system message, then the last
\* 10 non-provisional messages of the history, oldest first (all of them
\* when there are fewer than 10), then the new user message; it has at most
\* 12 entries.
C18_LastTenNonProvisional ==
  \A i \in DOMAIN reqs :
    LET body == reqs[i].messages
        wanted == SliceLast(NonProvisional(chat.messages), 10)
    IN /\ Len(body) <= 12
       /\ Len(body) = Len(wanted) + 2
       /\ body[1].role = "system"
       /\ body[Len(body)] = [role |-> "user", content |-> reqs[i].message]
       /\ \A k \in 1..Len(wanted) :
            /\ body[k + 1].content = wanted[k].text
            /\ body[k + 1].role = wanted[k].sender

\* ----------------------------------------------------------------- C19
\* nothing is on the network and no failure is recorded: every pending call
\* is a send in its simulated delay, and there is no probe request
OfflineOnly ==
  /\ \A i \in DOMAIN reqs :
       reqs[i].phase = "mock" /\ reqs[i].caller = "send"
  /\ chat.error = Null

Age == clock - saved[1].at

\* C20 as claimed: for every message list and session id, a loadMessages()
\* less than 7 days after saveMessages(messages, id) returns exactly these
\* messages and this id, and one more than 7 days after it returns null.
C20_RoundTrip ==
  [][(LoadMessages /\ saved # <<>>) =>
       LET data == returned'.value IN
       /\ Age < 7 =>
            /\ data # <<>>
            /\ Get(data[1], "messages") = saved[1].messages
            /\ Get(data[1], "sessionId") = saved[1].sessionId
       /\ Age > 7 => data = <<>>
    ]_vars

\* C20 as amended: a loadMessages() less than 7 days after
\* saveMessages(messages, id) returns the last 100 messages of the list, in
\* order (the whole list when it has at most 100), and the same id; one more
\* than 7 days after the save returns null.
C20_RoundTripOfLastHundred ==
  [][(LoadMessages /\ saved # <<>>) =>
       LET data == returned'.value IN
       /\ Age < 7 =>
            /\ data # <<>>
            /\ Get(data[1], "messages") = SliceLast(saved[1].messages, 100)
            /\ Len(saved[1].messages) <= 100 =>
                 Get(data[1], "messages") = saved[1].messages
            /\ Get(data[1], "sessionId") = saved[1].sessionId
       /\ Age > 7 => data = <<>>
    ]_vars

\* a list of 101 messages was saved with its id and loaded six days later
C20_Witness ==
  /\ saved # <<>>
  /\ returned.call = "loadMessages"
  /\ returned.value # <<>>
  /\ Len(saved[1].messages) = MAX_STORED_MESSAGES + 1
  /\ saved[1].sessionId # Undefined
  /\ Age = 6
  /\ Len(Get(returned.value[1], "messages")) = MAX_STORED_MESSAGES

\* ----------------------------------------------------------------- C21
\* nothing is queued, in flight or scheduled, and every bootstrap has ended
Quiescent ==
  /\ chat.messageQueue = <<>>
  /\ reqs = <<>>
  /\ timers = 0

\* C21: in every quiescent state (queue empty, no request in flight, no
\* continuation timer, bootstrap finished) isLoading, isTyping and
\* isProcessingQueue are all false; after a single submit under the offline
\* responder the user message is in messages at once and, at rest, exactly
\* one assistant message follows it.
C21_QuiescentMeansIdle ==
  /\ Quiescent =>
       (~chat.isLoading /\ ~chat.isTyping /\ ~chat.isProcessingQueue)
  /\ (config.useMockResponses /\ NumSubmitted = 1) =>
       /\ chat.messages[1] = [sender |-> "user", text |-> <<1>>]
       /\ Quiescent =>
            chat.messages = <<[sender |-> "user", text |-> <<1>>],
                              [sender |-> "assistant", text |-> Reply(<<1>>)]>>

\* offline, one message was submitted and answered, and all is at rest
C21_Witness ==
  /\ config.useMockResponses
  /\ NumSubmitted = 1
  /\ Len(chat.messages) = 2
  /\ Quiescent
  /\ ~chat.isLoading

\* ----------------------------------------------------------------- C22
\* this step is an accepted submit of `text`: the item joins the queue or is
\* sent at once
SubmitOf(text) ==
  \/ chat'.messageQueue = Append(chat.messageQueue, text)
  \/ /\ Len(reqs') = Len(reqs) + 1
     /\ reqs'[Len(reqs')].message = Head(Append(chat.messageQueue, text))
     /\ chat'.messageQueue = Tail(Append(chat.messageQueue, text))

\* C22: messages is append-only under the operations of the pipeline: every
\* step leaves the previous sequence as a prefix of the new one and adds at
\* most one message, and the only additions are the user message of a submit
\* and the assistant message of a dispatch that completes successfully.
C22_MessagesAppendOnly ==
  [][\/ chat'.messages = chat.messages
     \/ /\ Len(chat'.messages) = Len(chat.messages) + 1
        /\ SubSeq(chat'.messages, 1, Len(chat.messages)) = chat.messages
        /\ LET added == chat'.messages[Len(chat'.messages)] IN
           \/ IsUser(added) /\ SubmitOf(added.text)
           \/ /\ IsAssistant(added)
              /\ \E message \in PendingTexts :
                   SendEnds(message) /\ added.text = Reply(message)
    ]_vars

\* submits, a reply and a failure have happened: two user messages and one
\* reply are in messages, the failure has left an error only
C22_Witness ==
  /\ Len(chat.messages) = 3
  /\ NumSubmitted = 2
  /\ chat.error \in ErrorMessages
  /\ reqs = <<>>

\* ----------------------------------------------------------------- C23
\* C23: a drain started on an empty queue issues no request and leaves
\* messages, the queue, isLoading, isTyping and the error unchanged, ending
\* with isProcessingQueue false; dequeueMessage on an empty queue leaves the
\* queue empty and changes nothing else.
C23_EmptyDrainIsHarmless ==
  [][/\ (TimerFires /\ chat.messageQueue = <<>>) =>
          /\ reqs' = reqs
          /\ timers' = timers - 1
          /\ chat' = [chat EXCEPT !.isProcessingQueue = FALSE]
     /\ chat.messageQueue = <<>> => dequeueMessage(chat) = chat
    ]_vars

\* a continuation timer is pending while the queue is already empty and
\* nothing is in flight: the drain it starts finds nothing to do
C23_Witness ==
  /\ timers > 0
  /\ chat.messageQueue = <<>>
  /\ reqs = <<>>
  /\ NumSubmitted > 0

\* ----------------------------------------------------------------- C24
\* C24: isLoading is true in every state in which a completion request
\* issued by the drain is in flight.
C24_LoadingWhileInFlight ==
  ActiveDrains # {} => chat.isLoading

\* ----------------------------------------------------------------- C26
\* C26: with every submit going through handleSend on the current state of
\* the store, the queue holds at most one item at any instant and is empty
\* whenever a request is in flight, and the 500 ms continuation is never
\* scheduled.
C26_QueueIsNeverUsed ==
  /\ Len(chat.messageQueue) <= 1
  /\ ActiveDrains # {} => chat.messageQueue = <<>>
  /\ timers = 0

\* ----------------------------------------------------------------- C27
\* the request a step adds for a user message, if it adds one
Dispatched ==
  IF Len(reqs') = Len(reqs) + 1 /\ reqs'[Len(reqs')].caller = "send"
  THEN <<reqs'[Len(reqs')].message>>
  ELSE <<>>

\* the history sendMessageToGrok hands to the client in this step, and the
\* list the client sends
HistoryHanded == conversationHistory(chat'.messages)

Outbound(message) == requestMessages(message, HistoryHanded)

Occurrences(seq, x) == Cardinality({k \in DOMAIN seq : seq[k] = x})

\* C27: the history handed to the completion client for an item does not
\* contain that item's own user message, so the outbound list contains the
\* new user message exactly once, as its last entry.
C27_OwnMessageOnlyLast ==
  [][\A k \in DOMAIN Dispatched :
       LET own == [role |-> "user", content |-> Dispatched[k]] IN
       /\ Occurrences(HistoryHanded, own) = 0
       /\ Occurrences(Outbound(Dispatched[k]), own) = 1
       /\ Outbound(Dispatched[k])[Len(Outbound(Dispatched[k]))] = own
    ]_vars

\* ----------------------------------------------------------------- C28
\* C28: the operations of the pipeline (submit, drain, dispatch and its
\* outcomes, request retries, bootstrap, timers) never change
\* connectionStatus or retryCount, which stay at connected and 0.
C28_StatusAndCountUntouched ==
  /\ chat.connectionStatus = "connected"
  /\ chat.retryCount = 0

\* a request has been retried and a send has failed, after a bootstrap
C28_Witness ==
  /\ chat.sessionId # NullId
  /\ chat.error \in ErrorMessages
  /\ \E i \in DOMAIN reqs : reqs[i].attempt > 0
  /\ chat.connectionStatus = "connected"
  /\ chat.retryCount = 0

\* ----------------------------------------------------------------- C25
Blank(message) == \A k \in DOMAIN message : message[k] = SP

\* C25: handleSend is a no-op (no message appended, nothing enqueued, no
\* drain started) when the trimmed text is empty, when isLoading is true or
\* when connectionStatus is disconnected; otherwise it appends exactly one
\* user message with the trimmed text, enqueues exactly one item with that
\* text and starts a drain only if isProcessingQueue is false.
C25_SendGate ==
  \A message \in Typed(NumSubmitted + 1) :
    LET after == handleSend(World, message)
        text == <<NumSubmitted + 1>>
        queued == Append(chat.messageQueue, text)
    IN IF \/ Blank(message)
          \/ chat.isLoading
          \/ chat.connectionStatus = "disconnected"
       THEN after = World
       ELSE /\ after.chat.messages =
                 Append(chat.messages, [sender |-> "user", text |-> text])
            /\ after.timers = timers
            /\ IF chat.isProcessingQueue
               THEN /\ after.reqs = reqs
                    /\ after.chat = [chat EXCEPT
                                       !.messages = after.chat.messages,
                                       !.messageQueue = queued]
               ELSE /\ after.chat.isProcessingQueue
                    /\ after.chat.messageQueue = Tail(queued)
                    /\ Len(after.reqs) = Len(reqs) + 1
                    /\ SubSeq(after.reqs, 1, Len(reqs)) = reqs
                    /\ after.reqs[Len(after.reqs)].caller = "send"
                    /\ after.reqs[Len(after.reqs)].message = Head(queued)

\* a message was submitted and the status then became disconnected, with
\* nothing loading: only the status keeps the next submit out
C25_Witness ==
  /\ chat.connectionStatus = "disconnected"
  /\ ~chat.isLoading
  /\ NumSubmitted = 1
  /\ nBoot > 0

\* ----------------------------------------------------------------- C29
\* C29: saveMessages stores at most the 100 most recent messages: for a list
\* longer than 100 the stored snapshot is that list's last 100 messages in
\* order, and for a list of at most 100 it is the whole list.
C29_StoresLastHundred ==
  (localStorage # <<>> /\ saved # <<>>) =>
    LET given == saved[1].messages
        kept == localStorage[1].messages
        n == Len(given)
    IN /\ Len(kept) <= 100
       /\ IF n > 100
          THEN /\ Len(kept) = 100
               /\ \A k \in 1..100 : kept[k] = given[n - 100 + k]
          ELSE kept = given

\* a list of more than 100 messages was saved, and 100 of them are stored
C29_Witness ==
  /\ returned.call = "saveMessages"
  /\ Len(saved[1].messages) > 100
  /\ localStorage # <<>>
  /\ Len(localStorage[1].messages) = 100

\* ----------------------------------------------------------------- C30
\* the stored snapshot is older than 7 days
Stale == clock - localStorage[1].lastUpdated > 7

Unusable == localStorage # <<>> /\ (localStorage[1] = Garbage \/ Stale)

\* C30: a loadMessages() that finds a stale (older than 7 days) or
\* unparsable snapshot deletes it and returns null, and a load of the then
\* empty store returns null and leaves it empty, so every later load
\* returns null until something is stored again; a load of a fresh snapshot
\* leaves the store unchanged.
C30_BadSnapshotIsDeleted ==
  [][LoadMessages =>
       IF Unusable \/ localStorage = <<>>
       THEN localStorage' = <<>> /\ returned'.value = <<>>
       ELSE localStorage' = localStorage /\ returned'.value = localStorage
    ]_vars

\* a snapshot was saved more than 7 days ago, and the latest load found it,
\* returned null and left the store empty
C30_Witness ==
  /\ returned.call = "loadMessages"
  /\ returned.value = <<>>
  /\ localStorage = <<>>
  /\ saved # <<>>
  /\ clock - saved[1].at > 7

TypeOK ==
  /\ chat.isLoading \in BOOLEAN
  /\ chat.isProcessingQueue \in BOOLEAN
  /\ timers \in Nat
  /\ nBoot \in 0..MaxBoot
  /\ \A i \in DOMAIN reqs : reqs[i].attempt \in 0..config.maxRetries

====
